---- MODULE Spec2Model ----
(***************************************************************************)
(* A model of rocrate_action_recorder.core: record() and playback() acting *)
(* on the provenance document ro-crate-metadata.json of one crate root.    *)
(*                                                                         *)
(* The document is a root summary entity, a list of extra contexts and an  *)
(* ordered graph of entities.  record() loads it (or starts an empty      *)
(* crate), runs _update_crate on the in-memory crate and writes it back;   *)
(* an exception raised on the way leaves the document untouched.           *)
(***************************************************************************)
EXTENDS Integers, Sequences, FiniteSets, TLC

VARIABLES
    doc,     \* the persisted document, or NoDoc
    fs,      \* the files on disk: absolute path -> size
    last,    \* the most recent operation: its arguments and its outcome
    first,   \* action id -> arguments of the first returning record call that derived it
    seen,    \* the <<username, program name, version>> of every returning record call
    calls,   \* number of record calls made so far
    pending  \* writer -> the record call it is in the middle of, or Idle

vars == <<doc, fs, last, first, seen, calls, pending>>

----------------------------------------------------------------------------
(* Bounds of the model *)

MaxCalls == 2

----------------------------------------------------------------------------
(* Generic helpers *)

RECURSIVE Concat(_)
Concat(ss) == IF ss = <<>> THEN "" ELSE Head(ss) \o Concat(Tail(ss))

RECURSIVE JoinWith(_, _)
JoinWith(ss, sep) ==
    IF ss = <<>> THEN ""
    ELSE IF Len(ss) = 1 THEN Head(ss)
    ELSE Head(ss) \o sep \o JoinWith(Tail(ss), sep)

IsPrefix(p, s) == Len(p) <= Len(s) /\ SubSeq(s, 1, Len(p)) = p

Range(s) == {s[i] : i \in DOMAIN s}

NoDoc == [none |-> TRUE]

----------------------------------------------------------------------------
(* Paths.  An absolute path is a sequence of components; a path argument   *)
(* is either absolute or relative to the working directory of the call.    *)

CrateRoot == <<"w">>

AbsPath(parts) == [abs |-> TRUE, parts |-> parts]
RelPath(parts) == [abs |-> FALSE, parts |-> parts]

\* a resolution that reads a relative path from the crate root
Resolve_rooted(path, cwd) == IF path.abs THEN path.parts ELSE CrateRoot \o path.parts

\* Path.resolve().expanduser().absolute()
Resolve(path, cwd) == IF path.abs THEN path.parts ELSE cwd \o path.parts

\* str(Path): components joined by the separator, "." for the empty path
PathStr(parts) == IF parts = <<>> THEN "." ELSE JoinWith(parts, "/")

\* get_relative_path: the path below root, or the ValueError
\* a containment test that accepts every path
get_relative_path_any(path, cwd) ==
    [err |-> "", rpath |-> Resolve(path, cwd)]

\* an identifier that keeps a relative path as it was spelled
get_relative_path_spelled(path, cwd) ==
    IF path.abs
    THEN IF IsPrefix(CrateRoot, path.parts)
         THEN [err |-> "", rpath |-> SubSeq(path.parts, Len(CrateRoot) + 1, Len(path.parts))]
         ELSE [err |-> "ValueError", rpath |-> <<>>]
    ELSE [err |-> "", rpath |-> <<".">> \o path.parts]

get_relative_path(path, cwd) ==
    LET apath == Resolve(path, cwd) IN
    IF IsPrefix(CrateRoot, apath)
    THEN [err |-> "", rpath |-> SubSeq(apath, Len(CrateRoot) + 1, Len(apath))]
    ELSE [err |-> "ValueError", rpath |-> <<>>]

\* a size that is 0 for a file that is not on disk
Stat_lenient(files, path, cwd) ==
    LET apath == Resolve(path, cwd) IN
    [err |-> "", size |-> IF apath \in DOMAIN files THEN files[apath] ELSE 0]

\* path.stat().st_size: the size of the file, or FileNotFoundError
Stat(files, path, cwd) ==
    LET apath == Resolve(path, cwd) IN
    IF apath \in DOMAIN files
    THEN [err |-> "", size |-> files[apath]]
    ELSE [err |-> "FileNotFoundError", size |-> 0]

\* mimetypes.guess_type on the file name
TextNames == {"a.txt"}
_get_mime_type(path) ==
    IF path.parts # <<>> /\ path.parts[Len(path.parts)] \in TextNames
    THEN "text/plain" ELSE "application/octet-stream"

----------------------------------------------------------------------------
(* Identity policy *)

\* shlex.quote on a token given as its sequence of characters
\* a token copied into the id as it is
quote_plain(tok) == Concat(tok)

UnsafeChars == {" ", "'", "$"}
QuoteChar(c) == IF c = "'" THEN "'\"'\"'" ELSE c
quote(tok) ==
    IF tok = <<>> THEN "''"
    ELSE IF \A i \in DOMAIN tok : tok[i] \notin UnsafeChars THEN Concat(tok)
    ELSE "'" \o Concat([i \in DOMAIN tok |-> QuoteChar(tok[i])]) \o "'"

make_action_id(argv) == JoinWith([i \in DOMAIN argv |-> quote(argv[i])], " ")

\* datetime.isoformat(): the local clock reading followed by the UTC offset
IsoFormat(dt) == <<dt.utc + dt.off, dt.off>>

\* an id that always carries the version suffix
SoftwareId_suffixed(name, version) == name \o "@" \o version

SoftwareId(name, version) == IF version # "" THEN name \o "@" \o version ELSE name

\* software_version or detect_software_version(program.name)
EffectiveVersion(a) == IF a.software_version # "" THEN a.software_version ELSE a.detected

----------------------------------------------------------------------------
(* The entity graph (rocrate.ROCrate as core.py uses it).  An entity in    *)
(* memory is [cls, j]: its Python class and its JSON object.  The crate is *)
(* [root, ctx, ents]: the root summary entity, the extra contexts and the  *)
(* entity map in insertion order.                                          *)

ProfileId == "https://w3id.org/ro/wfrun/process/0.5"
WfRunContext == "https://w3id.org/ro/terms/workflow-run/context"

\* The ids a directory entity can carry: "<relative path>/"
DirStems == {"d", "a.txt", "b", "p", "u"}

\* ROCrate.resolve_id: the key of the entity map; a trailing separator is dropped
DirIds == {n \o "/" : n \in DirStems}
Stem == [x \in DirIds |-> CHOOSE n \in DirStems : x = n \o "/"]
Canon(id) == IF id \in DirIds THEN Stem[id] ELSE id

\* the classes with a write method: data entities, listed in the root's hasPart
DataClasses == {"File", "Dataset", "DataEntity"}

Index(ents, id) ==
    IF \E i \in DOMAIN ents : Canon(ents[i].j.id) = Canon(id)
    THEN CHOOSE i \in DOMAIN ents : Canon(ents[i].j.id) = Canon(id)
    ELSE 0

\* crate.get(id): the entity under that key, or None (Index = 0)
Has(c, id) == Index(c.ents, id) # 0
Get(c, id) == c.ents[Index(c.ents, id)]

\* crate.add(e): a new key is appended, an existing key has its entity replaced;
\* a data entity under a new key is appended to the root's hasPart
Add(c, e) ==
    LET i == Index(c.ents, e.j.id) IN
    IF i = 0
    THEN [c EXCEPT !.ents = Append(@, e),
                   !.root.hasPart = IF e.cls \in DataClasses
                                    THEN Append(@, e.j.id) ELSE @]
    ELSE [c EXCEPT !.ents[i] = e]

\* ROCrate(None): a crate holding only the root summary entity
EmptyCrate ==
    [root |-> [hasPart |-> <<>>, datePublished |-> <<>>, license |-> "",
               name |-> "", description |-> "", conformsTo |-> ""],
     ctx |-> <<>>,
     ents |-> <<>>]

\* the class a loaded data entity gets from its @type
DataClass(j) ==
    IF j.type = "File" THEN "File"
    ELSE IF j.type = "Dataset" THEN "Dataset"
    ELSE "DataEntity"

\* the class a loaded contextual entity gets from its @type
ContextClass(j) ==
    IF j.type \in {"Person", "SoftwareApplication", "CreativeWork"} THEN j.type
    ELSE "ContextEntity"

\* the entities the root's hasPart names are read first, as data entities
RECURSIVE AddParts(_, _, _)
AddParts(c, parts, graph) ==
    IF parts = <<>> THEN c
    ELSE LET id == Head(parts)
             found == {i \in DOMAIN graph : graph[i].id = id}
         IN  IF found = {} \/ (\E i \in DOMAIN c.ents : c.ents[i].j.id = id)
             THEN AddParts(c, Tail(parts), graph)
             ELSE LET j == graph[CHOOSE i \in found : TRUE]
                  IN  AddParts(Add(c, [cls |-> DataClass(j), j |-> j]), Tail(parts), graph)

\* the remaining entities are read in document order, as contextual entities
RECURSIVE AddContextual(_, _)
AddContextual(c, graph) ==
    IF graph = <<>> THEN c
    ELSE LET j == Head(graph)
         IN  IF \E i \in DOMAIN c.ents : c.ents[i].j.id = j.id
             THEN AddContextual(c, Tail(graph))
             ELSE AddContextual(Add(c, [cls |-> ContextClass(j), j |-> j]), Tail(graph))

\* ROCrate(crate_root): the crate read from the persisted document
Load(d) ==
    LET c0 == [root |-> [d.root EXCEPT !.hasPart = <<>>], ctx |-> d.ctx, ents |-> <<>>]
    IN  AddContextual(AddParts(c0, d.root.hasPart, d.graph), d.graph)

\* crate.metadata.write(crate_root): the whole document is rewritten
Written(c) ==
    [root |-> c.root, ctx |-> c.ctx, graph |-> [i \in DOMAIN c.ents |-> c.ents[i].j]]

----------------------------------------------------------------------------
(* The provenance synthesizer: _update_crate and the functions it calls.   *)
(* A call's arguments are the record a; every step returns the crate and   *)
(* the name of the exception it raised ("" when it returned).              *)

\* rocrate's Entity.properties is a method (playback calls it), so the tests
\* isinstance(x.properties, dict) of add_software_application and add_file fail
PropertiesIsDict == FALSE

build_software_application(program, software_version) ==
    [cls |-> "SoftwareApplication",
     j |-> [id |-> SoftwareId(program.name, software_version),
            type |-> "SoftwareApplication",
            name |-> program.name,
            description |-> program.description,
            version |-> software_version]]

add_software_application(c, program, software_version) ==
    LET software_app == build_software_application(program, software_version)
        id == software_app.j.id
        same_version ==
            /\ Has(c, id)
            /\ PropertiesIsDict
            /\ "version" \in DOMAIN Get(c, id).j
            /\ Get(c, id).j.version = software_version
    IN  IF ~same_version THEN Add(c, software_app) ELSE c

add_agent(c, current_user) ==
    LET person == [cls |-> "Person",
                   j |-> [id |-> current_user, type |-> "Person", name |-> current_user]]
    IN  IF ~Has(c, current_user) THEN Add(c, person) ELSE c

\* a file step that leaves an entity it finds as first recorded
add_file_once(c, files, cwd, ioarg) ==
    LET rel == get_relative_path(ioarg.path, cwd)
        identifier == PathStr(rel.rpath)
        st == Stat(files, ioarg.path, cwd)
        file == [cls |-> "File",
                 j |-> [id |-> identifier, type |-> "File",
                        name |-> identifier,
                        description |-> ioarg.help,
                        contentSize |-> st.size,
                        encodingFormat |-> _get_mime_type(ioarg.path)]]
    IN  IF rel.err # "" THEN [err |-> rel.err, c |-> c, id |-> ""]
        ELSE IF st.err # "" THEN [err |-> st.err, c |-> c, id |-> ""]
        ELSE IF Has(c, identifier) THEN [err |-> "", c |-> c, id |-> identifier]
        ELSE [err |-> "", c |-> Add(c, file), id |-> identifier]

\* a file step that keeps the description an entity was first given
add_file_described_once(c, files, cwd, ioarg) ==
    LET rel == get_relative_path(ioarg.path, cwd)
        identifier == PathStr(rel.rpath)
        st == Stat(files, ioarg.path, cwd)
        known == Has(c, identifier) /\ Get(c, identifier).cls = "File"
        file == [cls |-> "File",
                 j |-> [id |-> identifier, type |-> "File",
                        name |-> identifier,
                        description |-> IF known THEN Get(c, identifier).j.description
                                        ELSE ioarg.help,
                        contentSize |-> st.size,
                        encodingFormat |-> _get_mime_type(ioarg.path)]]
    IN  IF rel.err # "" THEN [err |-> rel.err, c |-> c, id |-> ""]
        ELSE IF st.err # "" THEN [err |-> st.err, c |-> c, id |-> ""]
        ELSE [err |-> "", c |-> Add(c, file), id |-> identifier]

add_file(c, files, cwd, ioarg) ==
    LET rel == get_relative_path(ioarg.path, cwd)
        identifier == PathStr(rel.rpath)
        st == Stat(files, ioarg.path, cwd)
        update ==
            /\ Has(c, identifier)
            /\ Get(c, identifier).cls = "File"
            /\ PropertiesIsDict
        file == [cls |-> "File",
                 j |-> [id |-> identifier, type |-> "File",
                        name |-> identifier,
                        description |-> ioarg.help,
                        contentSize |-> st.size,
                        encodingFormat |-> _get_mime_type(ioarg.path)]]
    IN  IF rel.err # "" THEN [err |-> rel.err, c |-> c, id |-> ""]
        ELSE IF st.err # "" THEN [err |-> st.err, c |-> c, id |-> ""]
        ELSE IF update
        THEN [err |-> "",
              c |-> [c EXCEPT !.ents[Index(c.ents, identifier)].j =
                         [@ EXCEPT !.description = ioarg.help,
                                   !.contentSize = st.size,
                                   !.encodingFormat = _get_mime_type(ioarg.path)]],
              id |-> Get(c, identifier).j.id]
        ELSE [err |-> "", c |-> Add(c, file), id |-> identifier]

add_dir(c, cwd, ioarg) ==
    LET rel == get_relative_path(ioarg.path, cwd)
        identifier == PathStr(rel.rpath)
        ds == [cls |-> "Dataset",
               j |-> [id |-> identifier \o "/", type |-> "Dataset", name |-> identifier]]
    IN  IF rel.err # "" THEN [err |-> rel.err, c |-> c, id |-> ""]
        ELSE IF Has(c, identifier) /\ Get(c, identifier).cls = "Dataset"
        THEN [err |-> "", c |-> c, id |-> Get(c, identifier).j.id]
        ELSE [err |-> "", c |-> Add(c, ds), id |-> ds.j.id]

RECURSIVE add_files(_, _, _, _)
add_files(c, files, cwd, ioargs) ==
    IF ioargs = <<>> THEN [err |-> "", c |-> c, ids |-> <<>>]
    ELSE LET r == add_file(c, files, cwd, Head(ioargs))
         IN  IF r.err # "" THEN [err |-> r.err, c |-> c, ids |-> <<>>]
             ELSE LET rest == add_files(r.c, files, cwd, Tail(ioargs))
                  IN  [err |-> rest.err, c |-> rest.c, ids |-> <<r.id>> \o rest.ids]

RECURSIVE add_dirs(_, _, _)
add_dirs(c, cwd, ioargs) ==
    IF ioargs = <<>> THEN [err |-> "", c |-> c, ids |-> <<>>]
    ELSE LET r == add_dir(c, cwd, Head(ioargs))
         IN  IF r.err # "" THEN [err |-> r.err, c |-> c, ids |-> <<>>]
             ELSE LET rest == add_dirs(r.c, cwd, Tail(ioargs))
                  IN  [err |-> rest.err, c |-> rest.c, ids |-> <<r.id>> \o rest.ids]

\* every id kept, repeated or not
_unique_by_id_all(ids) == ids

\* the ids in first-seen order, each once
RECURSIVE _unique_by_id(_)
_unique_by_id(ids) ==
    IF ids = <<>> THEN <<>>
    ELSE LET init == _unique_by_id(SubSeq(ids, 1, Len(ids) - 1))
             x == ids[Len(ids)]
         IN  IF x \in Range(init) THEN init ELSE Append(init, x)

\* an action step that gives an action it finds the times of the latest run
add_action_refresh(c, action_id, start_time, end_time, software, all_inputs, all_outputs, agent) ==
    IF Has(c, action_id)
    THEN IF Get(c, action_id).j.type = "CreateAction"
         THEN [c EXCEPT !.ents[Index(c.ents, action_id)].j =
                   [@ EXCEPT !.startTime = IsoFormat(start_time),
                             !.endTime = IsoFormat(end_time)]]
         ELSE c
    ELSE Add(c, [cls |-> "ContextEntity",
                 j |-> [id |-> action_id, type |-> "CreateAction",
                        name |-> action_id,
                        startTime |-> IsoFormat(start_time),
                        endTime |-> IsoFormat(end_time),
                        agent |-> agent,
                        instrument |-> software,
                        object |-> all_inputs,
                        result |-> all_outputs]])

add_action(c, action_id, start_time, end_time, software, all_inputs, all_outputs, agent) ==
    IF Has(c, action_id) THEN c
    ELSE Add(c, [cls |-> "ContextEntity",
                 j |-> [id |-> action_id, type |-> "CreateAction",
                        name |-> action_id,
                        startTime |-> IsoFormat(start_time),
                        endTime |-> IsoFormat(end_time),
                        agent |-> agent,
                        instrument |-> software,
                        object |-> all_inputs,
                        result |-> all_outputs]])

\* a conformance step that does not look at what the crate already has
conform_unchecked(c) ==
    LET prc == [cls |-> "CreativeWork",
                j |-> [id |-> ProfileId, type |-> "CreativeWork",
                       name |-> "Process Run Crate", version |-> "0.5"]]
        c1 == [c EXCEPT !.ents = Append(@, prc)]
        c2 == [c1 EXCEPT !.root.conformsTo = ProfileId]
    IN  [c2 EXCEPT !.ctx = Append(@, WfRunContext)]

conform_to_process_run_crate_profile(c) ==
    LET prc == [cls |-> "CreativeWork",
                j |-> [id |-> ProfileId, type |-> "CreativeWork",
                       name |-> "Process Run Crate", version |-> "0.5"]]
        c1 == IF ~Has(c, ProfileId) THEN Add(c, prc) ELSE c
        c2 == [c1 EXCEPT !.root.conformsTo = ProfileId]
    IN  IF WfRunContext \notin Range(c2.ctx)
        THEN [c2 EXCEPT !.ctx = Append(@, WfRunContext)] ELSE c2

\* a root summary whose datePublished only moves forward
UpdateRoot_latest(c, a) ==
    LET c1 == IF a.dataset_license # "" THEN [c EXCEPT !.root.license = a.dataset_license] ELSE c
        c2 == IF c1.root.datePublished = <<>> \/ c1.root.datePublished[1] < IsoFormat(a.end_time)[1]
              THEN [c1 EXCEPT !.root.datePublished = IsoFormat(a.end_time)] ELSE c1
        c3 == IF c2.root.name = ""
              THEN [c2 EXCEPT !.root.name = "Files used by " \o a.program.name] ELSE c2
    IN  IF c3.root.description = ""
        THEN [c3 EXCEPT !.root.description = "An RO-Crate recording the files and directories that were used as input or output by " \o a.program.name \o "."]
        ELSE c3

\* a root summary whose license is the call's, given or not
UpdateRoot_relicensed(c, a) ==
    LET c1 == [c EXCEPT !.root.license = a.dataset_license]
        c2 == [c1 EXCEPT !.root.datePublished = IsoFormat(a.end_time)]
        c3 == IF c2.root.name = ""
              THEN [c2 EXCEPT !.root.name = "Files used by " \o a.program.name] ELSE c2
    IN  IF c3.root.description = ""
        THEN [c3 EXCEPT !.root.description = "An RO-Crate recording the files and directories that were used as input or output by " \o a.program.name \o "."]
        ELSE c3

\* a root summary named after the program of the latest call
UpdateRoot_renamed(c, a) ==
    LET c1 == IF a.dataset_license # "" THEN [c EXCEPT !.root.license = a.dataset_license] ELSE c
        c2 == [c1 EXCEPT !.root.datePublished = IsoFormat(a.end_time)]
        c3 == [c2 EXCEPT !.root.name = "Files used by " \o a.program.name]
    IN  IF c3.root.description = ""
        THEN [c3 EXCEPT !.root.description = "An RO-Crate recording the files and directories that were used as input or output by " \o a.program.name \o "."]
        ELSE c3

\* the root summary entity after the action is added
UpdateRoot(c, a) ==
    LET c1 == IF a.dataset_license # "" THEN [c EXCEPT !.root.license = a.dataset_license] ELSE c
        c2 == [c1 EXCEPT !.root.datePublished = IsoFormat(a.end_time)]
        c3 == IF c2.root.name = ""
              THEN [c2 EXCEPT !.root.name = "Files used by " \o a.program.name] ELSE c2
    IN  IF c3.root.description = ""
        THEN [c3 EXCEPT !.root.description = "An RO-Crate recording the files and directories that were used as input or output by " \o a.program.name \o "."]
        ELSE c3

\* The steps of _update_crate pass on the crate, the ids of the inputs and of
\* the outputs gathered so far, and the exception raised ("" when none).
Begin(c, a) ==
    [err |-> "",
     c |-> add_software_application(conform_to_process_run_crate_profile(c),
                                    a.program, EffectiveVersion(a)),
     ins |-> <<>>, outs |-> <<>>]

ThenInputs(s, r) ==
    IF s.err # "" THEN s
    ELSE IF r.err # "" THEN [s EXCEPT !.err = r.err]
    ELSE [s EXCEPT !.c = r.c, !.ins = @ \o r.ids]

ThenOutputs(s, r) ==
    IF s.err # "" THEN s
    ELSE IF r.err # "" THEN [s EXCEPT !.err = r.err]
    ELSE [s EXCEPT !.c = r.c, !.outs = @ \o r.ids]

InputFiles(s, files, a) == ThenInputs(s, add_files(s.c, files, a.cwd, a.ioargs.input_files))
InputDirs(s, a) == ThenInputs(s, add_dirs(s.c, a.cwd, a.ioargs.input_dirs))
OutputFiles(s, files, a) == ThenOutputs(s, add_files(s.c, files, a.cwd, a.ioargs.output_files))
OutputDirs(s, a) == ThenOutputs(s, add_dirs(s.c, a.cwd, a.ioargs.output_dirs))

\* a conclusion that links the outputs as object and the inputs as result
Conclude_swapped(c, a, s) ==
    IF s.err # "" THEN [err |-> s.err, c |-> c]
    ELSE [err |-> "",
          c |-> UpdateRoot(
                  add_action(add_agent(s.c, a.current_user),
                             make_action_id(a.argv), a.start_time, a.end_time,
                             SoftwareId(a.program.name, EffectiveVersion(a)),
                             _unique_by_id(s.outs), _unique_by_id(s.ins),
                             a.current_user),
                  a)]

\* the agent, the action and the root's summary, once every path is added
Conclude(c, a, s) ==
    IF s.err # "" THEN [err |-> s.err, c |-> c]
    ELSE [err |-> "",
          c |-> UpdateRoot(
                  add_action(add_agent(s.c, a.current_user),
                             make_action_id(a.argv), a.start_time, a.end_time,
                             SoftwareId(a.program.name, EffectiveVersion(a)),
                             _unique_by_id(s.ins), _unique_by_id(s.outs),
                             a.current_user),
                  a)]

_update_crate(c, files, a) ==
    Conclude(c, a,
        OutputDirs(OutputFiles(InputDirs(InputFiles(Begin(c, a), files, a), a), files, a), a))

\* the crate _record_run starts from: the persisted document, or a new crate
OpenCrate(d) == IF d = NoDoc THEN EmptyCrate ELSE Load(d)

\* crate.metadata.write, reached only when _update_crate returned
WriteCrate(d, r) ==
    IF r.err # "" THEN [err |-> r.err, doc |-> d]
    ELSE [err |-> "", doc |-> Written(r.c)]

\* _record_run: load or create the crate, update it, write it; an exception
\* raised by _update_crate leaves the document as it was
_record_run(d, files, a) == WriteCrate(d, _update_crate(OpenCrate(d), files, a))

----------------------------------------------------------------------------
(* playback *)

\* the order of two endTime strings: the local time is compared first, then
\* the offset that follows it
EndTimeLess(x, y) == x[1] < y[1] \/ (x[1] = y[1] /\ x[2] < y[2])

\* list.sort(key=endTime) is stable: an action goes behind those with an equal key
RECURSIVE InsertByEndTime(_, _)
InsertByEndTime(sorted, e) ==
    IF sorted = <<>> THEN <<e>>
    ELSE IF EndTimeLess(e.endTime, Head(sorted).endTime) THEN <<e>> \o sorted
    ELSE <<Head(sorted)>> \o InsertByEndTime(Tail(sorted), e)

RECURSIVE SortByEndTime(_)
SortByEndTime(actions) ==
    IF actions = <<>> THEN <<>>
    ELSE InsertByEndTime(SortByEndTime(SubSeq(actions, 1, Len(actions) - 1)),
                         actions[Len(actions)])

\* crate.get_by_type("CreateAction"), less the actions without id or endTime
PlayableActions(c) ==
    LET Playable(e) == e.j.type = "CreateAction" /\ e.j.id # "" /\ e.j.endTime # <<>>
        found == SelectSeq(c.ents, Playable)
    IN  [i \in DOMAIN found |-> found[i].j]

Ids(actions) == [i \in DOMAIN actions |-> actions[i].id]

playback(d) ==
    IF d = NoDoc THEN ""
    ELSE JoinWith(Ids(SortByEndTime(PlayableActions(Load(d)))), "\n")

\* a playback that leaves a document behind where there was none
DocAfterPlayback_created(d) == IF d = NoDoc THEN Written(EmptyCrate) ELSE d

\* a playback that writes the crate it read back to the document
DocAfterPlayback_rewritten(d) == IF d = NoDoc THEN d ELSE Written(Load(d))

\* playback reads the document and writes nothing
DocAfterPlayback(d) == d

----------------------------------------------------------------------------
(* The arguments of the calls *)

At(t) == [utc |-> t, off |-> 0]

File_a == AbsPath(<<"w", "a.txt">>)
File_b == AbsPath(<<"w", "b">>)
Dir_d == AbsPath(<<"w", "d">>)
Outside_o == AbsPath(<<"o">>)

Arg(path, help) == [path |-> path, help |-> help]

IOArgs(inf, outf, ind, outd) ==
    [input_files |-> inf, output_files |-> outf, input_dirs |-> ind, output_dirs |-> outd]

NoIO == IOArgs(<<>>, <<>>, <<>>, <<>>)

Call(program, version, detected, ioargs, argv, st, et, user, license) ==
    [program |-> program, software_version |-> version, detected |-> detected,
     ioargs |-> ioargs, argv |-> argv, start_time |-> st, end_time |-> et,
     current_user |-> user, dataset_license |-> license, cwd |-> CrateRoot]

\* Calls that differ in who runs which version of program p under which command
\* line.  The names overlap as strings: the program p can be run without
\* arguments, by a user called p, and its version can be unknown.  The caller
\* reads the clock before and after the run, so the n-th call's times are later
\* than those of the calls before it.
IdentityCalls(n) ==
    { Call([name |-> "p", description |-> "D"], v[1], v[2], io, argv,
           At(2 * n + 1), At(2 * n + 2), u, "L") :
        v \in {<<"1", "">>, <<"", "2">>, <<"", "">>},
        io \in {NoIO, IOArgs(<<Arg(File_a, "in")>>, <<Arg(File_b, "out")>>, <<>>, <<>>)},
        argv \in {<< <<"p">> >>, << <<"p">>, <<"a", " ", "b">> >>},
        u \in {"u", "p"} }

----------------------------------------------------------------------------
(* Actions *)

\* the processes that may call record on the crate root at the same time
Writers == {"w1", "w2"}

Idle == [none |-> TRUE]

InitFs == (<<"w", "a.txt">> :> 1) @@ (<<"w", "b">> :> 1) @@ (<<"o">> :> 1)

Init ==
    /\ doc = NoDoc
    /\ fs = InitFs
    /\ last = [op |-> "init"]
    /\ first = << >>
    /\ seen = {}
    /\ calls = 0
    /\ pending = [w \in Writers |-> Idle]

\* record(program, ioargs, start_time, crate_dir, argv, end_time, current_user,
\*        software_version, dataset_license)
Record(a) ==
    \E r \in {_record_run(doc, fs, a)}, id \in {make_action_id(a.argv)} :
        /\ calls < MaxCalls
        /\ calls' = calls + 1
        /\ doc' = r.doc
        /\ last' = [op |-> "record", a |-> a, err |-> r.err, before |-> doc]
        /\ first' = IF r.err = "" /\ id \notin DOMAIN first THEN first @@ (id :> a) ELSE first
        /\ seen' = IF r.err = ""
                   THEN seen \cup {<<a.current_user, a.program.name, EffectiveVersion(a)>>}
                   ELSE seen
        /\ UNCHANGED <<fs, pending>>

\* The environment rewrites a file of the crate between two calls
WriteFile(path, size) ==
    /\ last.op \in {"init", "record"}
    /\ ~(path \in DOMAIN fs /\ fs[path] = size)
    /\ fs' = [x \in DOMAIN fs \cup {path} |-> IF x = path THEN size ELSE fs[x]]
    /\ last' = [op |-> "fs"]
    /\ UNCHANGED <<doc, first, seen, calls, pending>>

\* The environment removes a file of the crate between two calls
RemoveFile(path) ==
    /\ last.op \in {"init", "record"}
    /\ path \in DOMAIN fs
    /\ fs' = [x \in DOMAIN fs \ {path} |-> fs[x]]
    /\ last' = [op |-> "fs"]
    /\ UNCHANGED <<doc, first, seen, calls, pending>>

Next == \E a \in IdentityCalls(calls) : Record(a)

Spec == Init /\ [][Next]_vars

\* Calls of one program by one user that differ in the paths they name
PathCalls ==
    { Call([name |-> "p", description |-> "D"], "1", "", io, argv, At(1), At(2), "u", "L") :
        io \in { IOArgs(<<Arg(File_a, "in")>>, <<>>, <<>>, <<>>),
                 IOArgs(<<Arg(File_a, "in")>>, <<Arg(File_b, "out")>>, <<>>, <<>>),
                 IOArgs(<<Arg(File_b, "in")>>, <<Arg(File_a, "out")>>, <<Arg(Dir_d, "dir")>>, <<>>),
                 IOArgs(<<Arg(Outside_o, "in")>>, <<Arg(File_b, "out")>>, <<>>, <<>>),
                 IOArgs(<<Arg(File_a, "in"), Arg(Outside_o, "in")>>, <<>>, <<>>, <<>>),
                 IOArgs(<<Arg(File_a, "in")>>, <<Arg(Outside_o, "out")>>, <<>>, <<>>),
                 IOArgs(<<Arg(File_a, "in")>>, <<Arg(File_b, "out")>>, <<Arg(Outside_o, "dir")>>, <<>>),
                 IOArgs(<<Arg(File_a, "in")>>, <<Arg(File_b, "out")>>, <<Arg(Dir_d, "dir")>>,
                        <<Arg(Outside_o, "dir")>>) },
        argv \in {<< <<"p">>, <<"x">> >>, << <<"p">>, <<"y">> >>} }

NextPaths ==
    \/ \E a \in PathCalls : Record(a)
    \/ \E n \in {1, 2} : WriteFile(<<"w", "a.txt">>, n)
    \/ RemoveFile(<<"w", "b">>)

SpecPaths == Init /\ [][NextPaths]_vars

\* Calls of one program by one user that bind one path to two arguments: to
\* two file arguments, or to a file argument and a directory argument
PartCalls ==
    { Call([name |-> "p", description |-> "D"], "1", "", io, argv, At(1), At(2), "u", "L") :
        io \in { IOArgs(<<Arg(File_a, "in")>>, <<Arg(File_b, "out")>>, <<>>, <<>>),
                 IOArgs(<<Arg(File_a, "in"), Arg(File_a, "ref")>>, <<>>, <<>>, <<>>),
                 IOArgs(<<Arg(File_a, "in")>>, <<Arg(File_a, "out")>>, <<>>, <<>>),
                 IOArgs(<<>>, <<>>, <<Arg(Dir_d, "dir")>>, <<>>),
                 IOArgs(<<Arg(Dir_d, "in")>>, <<>>, <<>>, <<>>),
                 IOArgs(<<Arg(Dir_d, "in")>>, <<>>, <<>>, <<Arg(Dir_d, "dir")>>) },
        argv \in {<< <<"p">>, <<"x">> >>, << <<"p">>, <<"y">> >>} }

\* the path w/d is on disk too, so that it can be read as a file
InitParts ==
    /\ doc = NoDoc
    /\ fs = InitFs @@ (<<"w", "d">> :> 1)
    /\ last = [op |-> "init"]
    /\ first = << >>
    /\ seen = {}
    /\ calls = 0
    /\ pending = [w \in Writers |-> Idle]

NextParts == \E a \in PartCalls : Record(a)

SpecParts == InitParts /\ [][NextParts]_vars

\* Calls of one program by one user that differ in the license they give, if
\* any, and in their times, which the caller may give in any order
RootCalls ==
    { Call([name |-> "p", description |-> "D"], "1", "", io, argv, At(t), At(t + 1), "u", lic) :
        io \in {NoIO, IOArgs(<<Arg(File_a, "in")>>, <<Arg(File_b, "out")>>, <<>>, <<>>)},
        argv \in {<< <<"p">>, <<"x">> >>, << <<"p">>, <<"y">> >>},
        t \in {1, 3},
        lic \in {"", "L", "M"} }

NextRoot == \E a \in RootCalls : Record(a)

SpecRoot == Init /\ [][NextRoot]_vars

\* playback(crate_root)
Playback ==
    /\ last' = [op |-> "playback", out |-> playback(doc), before |-> doc]
    /\ doc' = DocAfterPlayback(doc)
    /\ UNCHANGED <<fs, first, seen, calls, pending>>

\* Calls whose end times differ in their offset from UTC, too
TimedCalls ==
    { Call([name |-> "p", description |-> "D"], "1", "", io, argv,
           [utc |-> 0, off |-> et.off], et, "u", "L") :
        io \in {NoIO, IOArgs(<<Arg(File_a, "in")>>, <<Arg(File_b, "out")>>, <<>>, <<>>)},
        argv \in {<< <<"p">>, <<"x">> >>, << <<"p">>, <<"y">> >>, << <<"p">>, <<"z">> >>},
        et \in {[utc |-> 2, off |-> 0], [utc |-> 4, off |-> 0], [utc |-> 1, off |-> 2]} }

NextPlayback ==
    \/ \E a \in TimedCalls : Record(a)
    \/ Playback

SpecPlayback == Init /\ [][NextPlayback]_vars

\* A record call in two steps, as _record_run takes them: the document is
\* read and the crate updated in memory; later the crate is written.
StartRecord(w, a) ==
    /\ pending[w] = Idle
    /\ calls < MaxCalls
    /\ calls' = calls + 1
    /\ pending' = [pending EXCEPT ![w] = [a |-> a, loaded |-> doc, r |-> _record_run(doc, fs, a)]]
    /\ UNCHANGED <<doc, fs, last, first, seen>>

\* a write that starts from the document as it is now
Persisted_reloaded(current, call) == _record_run(current, fs, call.a).doc

\* crate.metadata.write: the crate built from the document that was read
\* replaces whatever the document is by now
Persisted(current, call) == IF call.r.err # "" THEN current ELSE call.r.doc

FinishRecord(w) ==
    /\ pending[w] # Idle
    /\ \E call \in {pending[w]}, id \in {make_action_id(pending[w].a.argv)} :
        /\ doc' = Persisted(doc, call)
        /\ last' = [op |-> "record", a |-> call.a, err |-> call.r.err, before |-> doc,
                    loaded |-> call.loaded]
        /\ first' = IF call.r.err = "" /\ id \notin DOMAIN first
                    THEN first @@ (id :> call.a) ELSE first
        /\ seen' = IF call.r.err = ""
                   THEN seen \cup {<<call.a.current_user, call.a.program.name,
                                     EffectiveVersion(call.a)>>}
                   ELSE seen
    /\ pending' = [pending EXCEPT ![w] = Idle]
    /\ UNCHANGED <<fs, calls>>

\* Calls of one program by one user, made by two processes
RaceCalls ==
    { Call([name |-> "p", description |-> "D"], "1", "", io, argv, At(1), At(2), "u", "L") :
        io \in {NoIO, IOArgs(<<Arg(File_a, "in")>>, <<Arg(File_b, "out")>>, <<>>, <<>>),
                IOArgs(<<Arg(File_b, "in")>>, <<>>, <<Arg(Dir_d, "dir")>>, <<>>)},
        argv \in {<< <<"p">>, <<"x">> >>, << <<"p">>, <<"y">> >>} }

NextRace ==
    \/ \E w \in Writers, a \in RaceCalls : StartRecord(w, a)
    \/ \E w \in Writers : FinishRecord(w)

SpecRace == Init /\ [][NextRace]_vars

\* Invocation tokens: plain ones, one with a space, one with a quote, the
\* empty one
Tokens == {<<"p">>, <<"x">>, <<"p", " ", "x">>, <<"'", "x">>, <<>>}

ArgvCalls ==
    { Call([name |-> "p", description |-> "D"], "1", "", NoIO, argv, At(1), At(2), "u", "L") :
        argv \in {<<t>> : t \in Tokens} \cup {<<t1, t2>> : t1 \in Tokens, t2 \in Tokens} }

NextIds == \E a \in ArgvCalls : Record(a)

SpecIds == Init /\ [][NextIds]_vars

\* the spelling of a path on the command line
Spelling(path) == IF path.abs THEN "/" \o PathStr(path.parts) ELSE PathStr(path.parts)

\* Calls that name one path, spelled absolute or relative, from a working
\* directory that is the crate root, a directory below it, or one outside it
SpelledCalls ==
    { [Call([name |-> "p", description |-> "D"], "1", "", io, << <<"p">>, <<Spelling(io[2])>> >>,
            At(1), At(2), "u", "L") EXCEPT !.ioargs = io[1], !.cwd = cwd] :
        io \in { <<IOArgs(<<Arg(path, "in")>>, <<>>, <<>>, <<>>), path>> :
                    path \in {File_a, RelPath(<<"a.txt">>), RelPath(<<"b">>)} }
               \cup { <<IOArgs(<<>>, <<>>, <<Arg(path, "dir")>>, <<>>), path>> :
                    path \in {Dir_d, RelPath(<<"d">>)} },
        cwd \in {CrateRoot, <<"w", "s">>, <<"h">>} }

\* a file a.txt exists in the crate root and in the directory s below it
InitSpelled ==
    /\ doc = NoDoc
    /\ fs = InitFs @@ (<<"w", "s", "a.txt">> :> 2)
    /\ last = [op |-> "init"]
    /\ first = << >>
    /\ seen = {}
    /\ calls = 0
    /\ pending = [w \in Writers |-> Idle]

NextSpelled == \E a \in SpelledCalls : Record(a)

SpecSpelled == InitSpelled /\ [][NextSpelled]_vars

\* Calls of two programs, one of them described in two ways
ProgramCalls ==
    { Call(program, "1", "", io, << <<program.name>>, <<x>> >>, At(1), At(2), "u", "L") :
        program \in { [name |-> "p", description |-> "D"],
                      [name |-> "p", description |-> "E"],
                      [name |-> "q", description |-> "D"] },
        io \in {NoIO, IOArgs(<<Arg(File_a, "in")>>, <<Arg(File_b, "out")>>, <<>>, <<>>)},
        x \in {"x", "y"} }

NextPrograms == \E a \in ProgramCalls : Record(a)

SpecPrograms == Init /\ [][NextPrograms]_vars

----------------------------------------------------------------------------
(* What the claims observe: the persisted document after a call, the        *)
(* document the call found, and the call's own arguments.                   *)

Graph == IF doc = NoDoc THEN <<>> ELSE doc.graph

Before == IF last.op = "record" /\ last.before # NoDoc THEN last.before.graph ELSE <<>>

OfType(g, t) == {i \in DOMAIN g : g[i].type = t}

WithId(g, t, id) == {i \in DOMAIN g : g[i].type = t /\ g[i].id = id}

Succeeded == last.op = "record" /\ last.err = ""

LastId == make_action_id(last.a.argv)

\* the call recorded a command line that an earlier successful call recorded
Repeated == Succeeded /\ LastId \in DOMAIN first /\ first[LastId] # last.a

LastVersion ==
    IF last.a.software_version # "" THEN last.a.software_version ELSE last.a.detected

\* C1: after any sequence of successful record calls the document holds
\* exactly one Action entity for every action id that was recorded.
C1_Claim ==
    \A id \in DOMAIN first : Cardinality(WithId(Graph, "CreateAction", id)) = 1

\* C2: an Action entity that exists under the call's action id when record is
\* called is in the document after the call with every property as it was.
C2_Claim ==
    Succeeded =>
        \A i \in WithId(Before, "CreateAction", LastId) :
            \E k \in DOMAIN Graph : Graph[k] = Before[i]

InOrder(a) ==
    [i \in DOMAIN a.ioargs.input_files |-> [isfile |-> TRUE, path |-> a.ioargs.input_files[i].path]]
    \o [i \in DOMAIN a.ioargs.input_dirs |-> [isfile |-> FALSE, path |-> a.ioargs.input_dirs[i].path]]
    \o [i \in DOMAIN a.ioargs.output_files |-> [isfile |-> TRUE, path |-> a.ioargs.output_files[i].path]]
    \o [i \in DOMAIN a.ioargs.output_dirs |-> [isfile |-> FALSE, path |-> a.ioargs.output_dirs[i].path]]

OutsideAt(a) == {i \in DOMAIN InOrder(a) : ~IsPrefix(CrateRoot, Resolve(InOrder(a)[i].path, a.cwd))}

FirstOutside(a) == CHOOSE i \in OutsideAt(a) : \A k \in OutsideAt(a) : i <= k

\* a file argument taken up before the first outside path is not on disk
MissingBefore(a) ==
    \E i \in 1..(FirstOutside(a) - 1) :
        InOrder(a)[i].isfile /\ Resolve(InOrder(a)[i].path, a.cwd) \notin DOMAIN fs

\* C4 as stated: a call with a path outside the crate root, in whichever of
\* the four groups, raises ValueError and leaves the document as it was.
C4_Claim ==
    last.op = "record" /\ OutsideAt(last.a) # {} =>
        last.err = "ValueError" /\ doc = last.before

\* C4 as the code has it: a call with a path outside the crate root raises an
\* exception and leaves the document as it was, absent or unchanged; the
\* exception is ValueError unless a file argument taken up before the outside
\* path is missing, and then it is FileNotFoundError.
C4_OutsideRejected ==
    last.op = "record" /\ OutsideAt(last.a) # {} =>
        /\ doc = last.before
        /\ last.err = IF MissingBefore(last.a) THEN "FileNotFoundError" ELSE "ValueError"

C4_Witness ==
    /\ last.op = "record"
    /\ OutsideAt(last.a) # {}
    /\ FirstOutside(last.a) > 3
    /\ last.err = "ValueError"
    /\ last.before # NoDoc
    /\ doc = last.before

FileArgs(a) ==
    {<<Resolve(f.path, a.cwd), PathStr(get_relative_path(f.path, a.cwd).rpath)>> :
        f \in Range(a.ioargs.input_files) \cup Range(a.ioargs.output_files)}

\* C5: after every successful call the document holds, for each file the
\* call names, exactly one entity with the file's relative path as id; it is a
\* File and its contentSize is the size the file has at that call.
C5_FileRefreshed ==
    Succeeded =>
        \A f \in FileArgs(last.a) :
            /\ Cardinality({i \in DOMAIN Graph : Graph[i].id = f[2]}) = 1
            /\ \A i \in DOMAIN Graph :
                  Graph[i].id = f[2] =>
                      Graph[i].type = "File" /\ Graph[i].contentSize = fs[f[1]]

\* the file was recorded with another size, and the command line was recorded too
C5_Witness ==
    /\ Succeeded
    /\ WithId(Before, "CreateAction", LastId) # {}
    /\ \E f \in FileArgs(last.a) :
          /\ \E i \in WithId(Before, "File", f[2]) : Before[i].contentSize # fs[f[1]]
          /\ \E i \in WithId(Graph, "File", f[2]) : Graph[i].contentSize = fs[f[1]]

\* C6: after any number of successful calls by one user with one software
\* name and version, the document holds exactly one Person, whose id is the
\* username, and exactly one SoftwareApplication.
C6_Claim ==
    doc # NoDoc /\ Cardinality(seen) = 1 =>
        /\ Cardinality(OfType(Graph, "Person")) = 1
        /\ \A s \in seen : WithId(Graph, "Person", s[1]) # {}
        /\ Cardinality(OfType(Graph, "SoftwareApplication")) = 1

\* the call gives a version of a program that the document has under other
\* versions only, and every call so far was made by the same user
VersionChanged ==
    /\ Succeeded
    /\ {s[1] : s \in seen} = {last.a.current_user}
    /\ \E i \in OfType(Before, "SoftwareApplication") :
          Before[i].name = last.a.program.name
    /\ \A i \in OfType(Before, "SoftwareApplication") :
          Before[i].name = last.a.program.name => Before[i].version # LastVersion

\* C7: a call with another version of a program adds a SoftwareApplication
\* for it (id name@version, the bare name when the version is unknown) and
\* keeps the earlier ones unchanged; every Action's instrument is the software
\* of the call that recorded the action; and a document that held one Person
\* still holds one.
C7_Claim ==
    VersionChanged =>
        /\ WithId(Graph, "SoftwareApplication",
                  IF LastVersion = "" THEN last.a.program.name
                  ELSE last.a.program.name \o "@" \o LastVersion) # {}
        /\ \A i \in OfType(Before, "SoftwareApplication") :
              \E k \in DOMAIN Graph : Graph[k] = Before[i]
        /\ \A i \in OfType(Graph, "CreateAction") :
              Graph[i].id \in DOMAIN first =>
                  Graph[i].instrument =
                      IF EffectiveVersion(first[Graph[i].id]) = ""
                      THEN first[Graph[i].id].program.name
                      ELSE first[Graph[i].id].program.name \o "@"
                               \o EffectiveVersion(first[Graph[i].id])
        /\ Cardinality(OfType(Before, "Person")) = 1 =>
              Cardinality(OfType(Graph, "Person")) = 1

C9_Claim ==
    Succeeded => WithId(Graph, "CreateAction", LastId) # {}

\* C10: an Action or Directory entity of the document a successful call found
\* is in the document after the call with the same type and properties.
C10_Claim ==
    Succeeded =>
        \A i \in OfType(Before, "CreateAction") \cup OfType(Before, "Dataset") :
            \E k \in DOMAIN Graph : Graph[k] = Before[i]

\* the ids a call gives its file and directory arguments
ArgFileIds(a) ==
    {PathStr(get_relative_path(f.path, a.cwd).rpath) :
        f \in Range(a.ioargs.input_files) \cup Range(a.ioargs.output_files)}

ArgDirIds(a) ==
    {PathStr(get_relative_path(f.path, a.cwd).rpath) \o "/" :
        f \in Range(a.ioargs.input_dirs) \cup Range(a.ioargs.output_dirs)}

\* the paths a call binds to two file arguments
TwiceBound(a) ==
    LET fa == a.ioargs.input_files \o a.ioargs.output_files
    IN  {PathStr(get_relative_path(fa[i].path, a.cwd).rpath) :
            i \in {k \in DOMAIN fa : \E m \in DOMAIN fa : m # k /\ fa[m].path = fa[k].path}}

NoRepeat(seq) == \A i, k \in DOMAIN seq : seq[i] = seq[k] => i = k

\* C11: a path bound to two file arguments of one call has exactly one File
\* entity, and no action's object or result list names an id twice.
C11_OneFileOneLink ==
    Succeeded =>
        /\ \A id \in TwiceBound(last.a) :
              /\ Cardinality({i \in DOMAIN Graph : Graph[i].id = id}) = 1
              /\ WithId(Graph, "File", id) # {}
        /\ \A i \in OfType(Graph, "CreateAction") :
              NoRepeat(Graph[i].object) /\ NoRepeat(Graph[i].result)

\* the action of a call that binds a path twice is new and names the path
C11_Witness ==
    /\ Succeeded
    /\ TwiceBound(last.a) # {}
    /\ WithId(Before, "CreateAction", LastId) = {}
    /\ \E i \in WithId(Graph, "CreateAction", LastId) :
          \E id \in TwiceBound(last.a) :
              id \in Range(Graph[i].object) /\ Len(Graph[i].object) = 1

HasPart == IF doc = NoDoc THEN <<>> ELSE doc.root.hasPart

HasPartBefore ==
    IF last.op = "record" /\ last.before # NoDoc THEN last.before.root.hasPart ELSE <<>>

\* C12: after every successful call the root's hasPart names the ids it named
\* before the call and the ids of the call's files and directories, each once;
\* from no document on, that is the union of all ids recorded.
C12_Claim ==
    Succeeded =>
        /\ Range(HasPart) = Range(HasPartBefore) \cup ArgFileIds(last.a) \cup ArgDirIds(last.a)
        /\ NoRepeat(HasPart)

\* C18: a directory argument has a Dataset entity with its relative path and a
\* trailing separator as id, a file argument a File entity with its relative
\* path as id, and the File and Dataset entities the call found stay in place.
C18_Claim ==
    Succeeded =>
        /\ \A id \in ArgDirIds(last.a) : WithId(Graph, "Dataset", id) # {}
        /\ \A id \in ArgFileIds(last.a) : WithId(Graph, "File", id) # {}
        /\ \A i \in OfType(Before, "File") \cup OfType(Before, "Dataset") :
              WithId(Graph, Before[i].type, Before[i].id) # {}

\* C13: after every successful call the root's datePublished is the call's
\* end_time, whether or not the action id was recorded before and whether or
\* not an earlier call had a later end_time.
C13_DatePublished ==
    Succeeded =>
        doc.root.datePublished = <<last.a.end_time.utc + last.a.end_time.off, last.a.end_time.off>>

\* the command line was recorded before with a later end_time: the action keeps
\* that endTime, datePublished is the earlier end_time of this call
C13_Witness ==
    /\ Succeeded
    /\ LastId \in DOMAIN first
    /\ last.a.end_time.utc < first[LastId].end_time.utc
    /\ doc.root.datePublished = IsoFormat(last.a.end_time)
    /\ last.before.root.datePublished = IsoFormat(first[LastId].end_time)
    /\ \E i \in WithId(Graph, "CreateAction", LastId) :
          Graph[i].endTime = IsoFormat(first[LastId].end_time)

LicenseBefore ==
    IF last.op = "record" /\ last.before # NoDoc THEN last.before.root.license ELSE ""

\* C14: after every successful call the root's license is the one the call
\* gives, and the one the document had (none, if it had none) when the call
\* gives none.
C14_License ==
    Succeeded =>
        doc.root.license =
            IF last.a.dataset_license # "" THEN last.a.dataset_license ELSE LicenseBefore

\* a call without a license on a document that has one
C14_Witness ==
    /\ Succeeded
    /\ last.a.dataset_license = ""
    /\ LicenseBefore = "L"
    /\ doc.root.license = "L"

\* the Action entities of the document playback read
PlayedActions ==
    IF last.op = "playback" /\ last.before # NoDoc
    THEN {last.before.graph[i] : i \in OfType(last.before.graph, "CreateAction")}
    ELSE {}

\* the instant an endTime names: its local time less its offset from UTC
Instant(endTime) == endTime[1] - endTime[2]

\* C15: playback returns the ids of the document's Action entities, one per
\* line, in ascending order of the instants their endTimes name.
C15_Claim ==
    last.op = "playback" =>
        \E order \in [1..Cardinality(PlayedActions) -> PlayedActions] :
            /\ \A i, k \in DOMAIN order : i # k => order[i] # order[k]
            /\ \A i, k \in DOMAIN order :
                  i < k => Instant(order[i].endTime) <= Instant(order[k].endTime)
            /\ last.out = JoinWith([i \in DOMAIN order |-> order[i].id], "\n")

\* C16: playback on a crate root without a document returns the empty result
\* and leaves the crate root without a document.
C16_NoDocument ==
    last.op = "playback" /\ last.before = NoDoc => last.out = "" /\ doc = NoDoc

C16_Witness ==
    last.op = "playback" /\ last.before = NoDoc /\ last.out = "" /\ doc = NoDoc

\* C17: playback leaves the persisted document as it found it.
C17_ReadOnly ==
    last.op = "playback" => doc = last.before

\* a playback of a document with files and an action
C17_Witness ==
    /\ last.op = "playback"
    /\ doc # NoDoc
    /\ doc = last.before
    /\ OfType(Graph, "File") # {}
    /\ last.out # ""

\* the call wrote a crate it had built from an older document than the one
\* it replaced
Overtaken == Succeeded /\ "loaded" \in DOMAIN last /\ last.loaded # last.before

Loaded == IF last.loaded = NoDoc THEN <<>> ELSE last.loaded.graph

\* C19: when two record calls have both read the document before either
\* writes, the document the later write leaves lacks the Action, the files
\* and the directories that only the earlier write had recorded.
C19_LostUpdate ==
    Overtaken =>
        \A i \in DOMAIN Before :
            /\ Before[i].type \in {"CreateAction", "File", "Dataset"}
            /\ (\A k \in DOMAIN Loaded : Loaded[k].id # Before[i].id)
            /\ Before[i].id \notin {LastId} \cup ArgFileIds(last.a) \cup ArgDirIds(last.a)
            => \A k \in DOMAIN Graph : Graph[k].id # Before[i].id

\* an Action and a file of the earlier write are not in the document
C19_Witness ==
    /\ Overtaken
    /\ \E i \in OfType(Before, "CreateAction") :
          /\ Before[i].id # LastId
          /\ \A k \in DOMAIN Graph : Graph[k].id # Before[i].id
    /\ \E i \in OfType(Before, "File") :
          \A k \in DOMAIN Graph : Graph[k].id # Before[i].id
    /\ WithId(Graph, "CreateAction", LastId) # {}

FilePaths(a) == {f.path : f \in Range(a.ioargs.input_files) \cup Range(a.ioargs.output_files)}
DirPaths(a) == {f.path : f \in Range(a.ioargs.input_dirs) \cup Range(a.ioargs.output_dirs)}

\* the place on disk a path argument of a call names
Target(path, cwd) == IF path.abs THEN path.parts ELSE cwd \o path.parts

BelowRoot(parts) == SubSeq(parts, Len(CrateRoot) + 1, Len(parts))

\* C21: the id of a File or Directory is the place it names taken relative
\* to the crate root, however the path was spelled, with one entity per id;
\* calls with different spellings have different action ids, each with its
\* own Action.
C21_SpellingFree ==
    Succeeded =>
        /\ \A p \in FilePaths(last.a) :
              \E i \in OfType(Graph, "File") :
                  /\ Graph[i].id = PathStr(BelowRoot(Target(p, last.a.cwd)))
                  /\ \A k \in DOMAIN Graph : Graph[k].id = Graph[i].id => k = i
        /\ \A p \in DirPaths(last.a) :
              \E i \in OfType(Graph, "Dataset") :
                  /\ Graph[i].id = PathStr(BelowRoot(Target(p, last.a.cwd))) \o "/"
                  /\ \A k \in DOMAIN Graph : Graph[k].id = Graph[i].id => k = i
        /\ first[LastId].argv = last.a.argv
        /\ Cardinality(OfType(Graph, "CreateAction")) = Cardinality(DOMAIN first)

\* a.txt is recorded by its relative path after it was recorded by its
\* absolute path: one File, two Actions
C21_Witness ==
    /\ Succeeded
    /\ FilePaths(last.a) = {RelPath(<<"a.txt">>)}
    /\ last.a.cwd = CrateRoot
    /\ \E id \in DOMAIN first : FilePaths(first[id]) = {File_a}
    /\ Cardinality(OfType(Graph, "File")) = 1
    /\ Cardinality(OfType(Graph, "CreateAction")) = 2

\* C22 as stated: a relative file argument names the file below the crate
\* root, whatever the working directory of the call is.
C22_Claim ==
    last.op = "record" =>
        \A p \in FilePaths(last.a) :
            ~p.abs /\ CrateRoot \o p.parts \in DOMAIN fs
            => /\ last.err = ""
               /\ WithId(Graph, "File", PathStr(p.parts)) # {}

\* C22: a relative file or directory argument names the place below the
\* working directory of the call.  When that place is outside the crate root
\* the call raises ValueError and the document stays as it was; when it is a
\* file inside the crate root the call succeeds and the File's id is that
\* place relative to the crate root, which is the path as given only when the
\* working directory is the crate root.
C22_CwdRelative ==
    last.op = "record" =>
        \A p \in {q \in FilePaths(last.a) \cup DirPaths(last.a) : ~q.abs} :
            LET target == last.a.cwd \o p.parts
                kind == IF p \in FilePaths(last.a) THEN "File" ELSE "Dataset"
                id == PathStr(BelowRoot(target)) \o (IF kind = "File" THEN "" ELSE "/")
            IN  /\ ~IsPrefix(CrateRoot, target) => last.err = "ValueError" /\ doc = last.before
                /\ IsPrefix(CrateRoot, target) /\ kind = "File" /\ target \notin DOMAIN fs
                   => last.err = "FileNotFoundError" /\ doc = last.before
                /\ IsPrefix(CrateRoot, target) /\ (kind = "File" => target \in DOMAIN fs)
                   => last.err = "" /\ WithId(Graph, kind, id) # {}

\* a.txt, given from the directory s, is recorded as s/a.txt
C22_Witness ==
    /\ Succeeded
    /\ FilePaths(last.a) = {RelPath(<<"a.txt">>)}
    /\ last.a.cwd = <<"w", "s">>
    /\ WithId(Graph, "File", "s/a.txt") # {}
    /\ WithId(Graph, "File", "a.txt") = {}

\* the ids of a list of path arguments, in argument order
ArgIds(ioargs, cwd, suffix) ==
    [i \in DOMAIN ioargs |-> PathStr(BelowRoot(Target(ioargs[i].path, cwd))) \o suffix]

\* a list without the later occurrences of what it holds
RECURSIVE FirstSeen(_)
FirstSeen(seq) ==
    IF seq = <<>> THEN <<>>
    ELSE LET x == Head(seq) IN <<x>> \o FirstSeen(SelectSeq(Tail(seq), LAMBDA y : y # x))

\* the call put an Action into the document that was not there before
Inserted ==
    /\ Succeeded
    /\ WithId(Before, "CreateAction", LastId) = {}
    /\ WithId(Graph, "CreateAction", LastId) # {}

\* C23: the Action a call inserts has the call's username as agent, the
\* call's software id as instrument, the ids of the input files and then of
\* the input directories as object, those of the output files and then of
\* the output directories as result, each id once in first-seen order, and
\* the call's times as startTime and endTime.
C23_ActionLinks ==
    Inserted =>
        \A i \in WithId(Graph, "CreateAction", LastId) :
            /\ Graph[i].agent = last.a.current_user
            /\ Graph[i].instrument =
                  (IF LastVersion # "" THEN last.a.program.name \o "@" \o LastVersion
                   ELSE last.a.program.name)
            /\ Graph[i].object =
                  FirstSeen(ArgIds(last.a.ioargs.input_files, last.a.cwd, "")
                            \o ArgIds(last.a.ioargs.input_dirs, last.a.cwd, "/"))
            /\ Graph[i].result =
                  FirstSeen(ArgIds(last.a.ioargs.output_files, last.a.cwd, "")
                            \o ArgIds(last.a.ioargs.output_dirs, last.a.cwd, "/"))
            /\ Graph[i].startTime = <<last.a.start_time.utc + last.a.start_time.off,
                                      last.a.start_time.off>>
            /\ Graph[i].endTime = <<last.a.end_time.utc + last.a.end_time.off,
                                    last.a.end_time.off>>

\* an Action with an input and an output is inserted after one whose two
\* input arguments name one file
C23_Witness ==
    /\ Inserted
    /\ \E i \in WithId(Graph, "CreateAction", LastId) :
          Graph[i].object = <<"a.txt">> /\ Graph[i].result = <<"b">>
    /\ \E i \in OfType(Graph, "CreateAction") :
          /\ Graph[i].id # LastId
          /\ Graph[i].object = <<"a.txt">>
          /\ Len(first[Graph[i].id].ioargs.input_files) = 2

RootName(program) == "Files used by " \o program.name

RootDescription(program) ==
    "An RO-Crate recording the files and directories that were used as input or output by "
        \o program.name \o "."

C25_Claim ==
    Succeeded =>
        \A i \in WithId(Before, "SoftwareApplication",
                        SoftwareId(last.a.program.name, LastVersion)) :
            Before[i].version = LastVersion
            => \E k \in DOMAIN Graph : Graph[k] = Before[i]

\* the file arguments of a call in the order they are processed
FileBindings(a) == a.ioargs.input_files \o a.ioargs.output_files

\* the help text of the binding of an id that is processed last
LastHelp(a, id) ==
    LET fb == FileBindings(a)
        at == {i \in DOMAIN fb : PathStr(BelowRoot(Target(fb[i].path, a.cwd))) = id}
    IN  fb[CHOOSE i \in at : \A k \in at : k <= i].help

C28_Claim ==
    \A i \in OfType(Graph, "CreateAction") :
        /\ WithId(Graph, "Person", Graph[i].agent) # {}
        /\ WithId(Graph, "SoftwareApplication", Graph[i].instrument) # {}
        /\ \A x \in Range(Graph[i].object) \cup Range(Graph[i].result) :
              WithId(Graph, "File", x) \cup WithId(Graph, "Dataset", x) # {}

\* the ids a call may write under
OwnIds(a) ==
    {SoftwareId(a.program.name, EffectiveVersion(a)), a.current_user, make_action_id(a.argv)}
        \cup ArgFileIds(a) \cup ArgDirIds(a)

\* C29: every entity id of the document a successful call found is in the
\* document it leaves, and an entity whose id is none of the call's own ids
\* is there with the same type and properties.
C29_Claim ==
    Succeeded =>
        \A i \in DOMAIN Before :
            /\ \E k \in DOMAIN Graph : Graph[k].id = Before[i].id
            /\ Before[i].id \notin OwnIds(last.a) => \E k \in DOMAIN Graph : Graph[k] = Before[i]

\* C30: playback returns the action ids that the successful record calls
\* derived, each once, one per line, in ascending order of the end times
\* given when each id was first recorded.
C30_Claim ==
    last.op = "playback" =>
        \E order \in [1..Cardinality(DOMAIN first) -> DOMAIN first] :
            /\ \A i, k \in DOMAIN order : i # k => order[i] # order[k]
            /\ \A i, k \in DOMAIN order :
                  i < k => first[order[i]].end_time.utc <= first[order[k]].end_time.utc
            /\ last.out = JoinWith(order, "\n")

\* the file arguments of the call that are not on disk
MissingFiles(a) == {p \in FilePaths(a) : Target(p, a.cwd) \notin DOMAIN fs}

\* C31: a record call that names a file which is not on disk raises an
\* exception and leaves the document as it was, absent or unchanged; a call
\* whose paths are inside the crate root and whose files are on disk
\* succeeds and records each directory it names, on disk or not.
C31_FilesMustExist ==
    last.op = "record" =>
        /\ MissingFiles(last.a) # {} => last.err # "" /\ doc = last.before
        /\ MissingFiles(last.a) = {} /\ OutsideAt(last.a) = {}
           => /\ last.err = ""
              /\ \A p \in DirPaths(last.a) :
                    WithId(Graph, "Dataset", PathStr(BelowRoot(Target(p, last.a.cwd))) \o "/") # {}

\* a call fails on the file b, which was removed, in a crate that holds the
\* directory d, which never was on disk
C31_Witness ==
    /\ last.op = "record"
    /\ MissingFiles(last.a) = {File_b}
    /\ OutsideAt(last.a) = {}
    /\ last.err = "FileNotFoundError"
    /\ last.before # NoDoc
    /\ doc = last.before
    /\ WithId(Graph, "Dataset", "d/") # {}
    /\ \A path \in DOMAIN fs : ~IsPrefix(<<"w", "d">>, path)

====
